---- MODULE Spec2Model ----
(***************************************************************************)
(* Model of getyotd.py: get_calendar (fetch-or-reuse of the monthly        *)
(* calendar PDF) and open_calendar (hand the file to a web browser).       *)
(*                                                                         *)
(* The file system, the wall clock, the HTTP server and the browser        *)
(* registry are the environment.  get_calendar runs in three steps (pc):   *)
(* the entry up to the page_url check, the page fetch with the link        *)
(* extraction, and the PDF fetch with the write.  cur records the running  *)
(* or last call (arguments, what it saw, its event log, its outcome), prev *)
(* the call before it; opened records the last call of open_calendar.      *)
(*                                                                         *)
(* Python's None is modelled as the empty tuple <<>> and a given string s  *)
(* as <<s>> (page_url, using).  Exceptions are named by the condition they *)
(* stand for:                                                              *)
(*   ValueError("No page URL provided.")            InvalidArgument        *)
(*   ConnectionError(...)                           ConnectivityError      *)
(*   ValueError("No download links found ...")      NotFound               *)
(*   ValueError("Multiple download links ...")      AmbiguousResult        *)
(*   KeyError('href') from a['href']                KeyError               *)
(*   FileNotFoundError                              NotFound               *)
(*   ValueError("No web browser found ...")         InvalidArgument        *)
(*   webbrowser.Error from webbrowser.get           BrowserError           *)
(***************************************************************************)
EXTENDS Integers, Sequences, FiniteSets, TLC

VARIABLES today, dirs, fs, pc, file, pdf_url, cur, prev, opened

vars == <<today, dirs, fs, pc, file, pdf_url, cur, prev, opened>>

(***************************************************************************)
(* Bounds of the model.                                                    *)
(***************************************************************************)
MaxTicks == 1
MaxAnchors == 2

(***************************************************************************)
(* Program constants.                                                      *)
(***************************************************************************)
HTTP_OK == 200

search_str == <<"Click", "here", "to", "Download", "the", "Free", "PDF">>

PageURL == "https://yogawithadriene.com/calendar/"

(***************************************************************************)
(* Inputs and environment values.                                          *)
(***************************************************************************)
None == <<>>
Some(s) == <<s>>

Dirs == {".calendars"}
PageUrls == {None, Some(""), Some(PageURL)}
Statuses == {200, 204, 404}
PdfBytes == {"%PDF-1.4 A", "%PDF-1.4 B"}
Browsers == {"firefox"}
Usings == {None, Some("firefox"), Some("lynx")}

StartDate == [year |-> 2024, month |-> 12]

\* an anchor: its visible text (a sequence of words) and its attributes
NoAttrs == [k \in {} |-> ""]
Href(h) == [href |-> h]
Anchors ==
  {[text |-> search_str, attrs |-> a] :
     a \in {NoAttrs, Href("https://example.com/cal.pdf"), Href("https://example.com/old.pdf")}}
  \cup {[text |-> <<"Yoga:">> \o search_str \o <<"now">>,
          attrs |-> Href("https://example.com/old.pdf")]}
  \cup {[text |-> <<"Download", "the", "Free", "PDF">>, attrs |-> a] :
          a \in {NoAttrs, Href("https://example.com/cal.pdf")}}

RECURSIVE SeqsUpTo(_, _)
SeqsUpTo(S, n) ==
  IF n = 0 THEN {<<>>}
  ELSE LET shorter == SeqsUpTo(S, n - 1)
       IN shorter \cup {Append(s, e) : s \in {t \in shorter : Len(t) = n - 1}, e \in S}

\* a body is the bytes of a response and the anchors html.parser finds in it
PageBodies == {[bytes |-> "<html>", anchors |-> p] : p \in SeqsUpTo(Anchors, MaxAnchors)}
PdfBodies == {[bytes |-> b, anchors |-> <<>>] : b \in PdfBytes}

(***************************************************************************)
(* Pure helpers.                                                           *)
(***************************************************************************)
MonthName == <<"January", "February", "March", "April", "May", "June", "July",
               "August", "September", "October", "November", "December">>

\* str.lower() on the month names strftime('%B') can produce
Lower(s) ==
  CASE s = "January" -> "january" [] s = "February" -> "february"
    [] s = "March" -> "march" [] s = "April" -> "april"
    [] s = "May" -> "may" [] s = "June" -> "june"
    [] s = "July" -> "july" [] s = "August" -> "august"
    [] s = "September" -> "september" [] s = "October" -> "october"
    [] s = "November" -> "november" [] s = "December" -> "december"

\* datetime.today().strftime('%Y%B').lower()
CacheKey(d) == ToString(d.year) \o Lower(MonthName[d.month])

\* dir / (key + '.pdf')
FilePath(dir, d) == dir \o "/" \o CacheKey(d) \o ".pdf"

\* the months the clock can show
RECURSIVE After(_, _)
After(d, n) ==
  IF n = 0 THEN d
  ELSE After(IF d.month = 12 THEN [year |-> d.year + 1, month |-> 1]
             ELSE [year |-> d.year, month |-> d.month + 1], n - 1)

Dates == {After(StartDate, n) : n \in 0..MaxTicks}

\* paths open_calendar is called with: the cache files and one that is never
\* written
Files == {FilePath(dir, d) : dir \in Dirs, d \in Dates} \cup {"missing.pdf"}

\* file.exists()
Exists(f) == f \in DOMAIN fs

\* `not page_url`: None and '' are both falsy
FalsyNoneOnly(url) == url = None
Falsy(url) == url = None \/ url[1] = ""

\* search_str in a.text
Contains(text, sub) ==
  \E i \in 0..(Len(text) - Len(sub)) : SubSeq(text, i + 1, i + Len(sub)) = sub

Matches(a) == Contains(a.text, search_str)

\* soup.find_all('a')
FindAllA(content) == content.anchors

\* [a['href'] for a in links if search_str in a.text]; a['href'] raises
\* KeyError when a selected anchor has no href attribute
DlLinks(links) ==
  LET sel == SelectSeq(links, Matches)
  IN IF \E i \in 1..Len(sel) : "href" \notin DOMAIN sel[i].attrs
     THEN [raised |-> TRUE, value |-> <<>>]
     ELSE [raised |-> FALSE, value |-> [i \in 1..Len(sel) |-> sel[i].attrs["href"]]]

\* response.status_code != 200
StatusFailsNon2xx(status) == status \notin 200..299
StatusFails(status) == status # HTTP_OK

(***************************************************************************)
(* State.                                                                  *)
(***************************************************************************)
NoBody == [bytes |-> "", anchors |-> <<>>]

\* the record of a call of get_calendar: its arguments, the date the clock
\* showed, the path it computed,
\* whether that file existed on entry, what the two responses were (status,
\* the matching anchors of the page, the body of the PDF response), the
\* events it caused in order, and how it ended
NoCall == [dir |-> "", page_url |-> None, force_dl |-> FALSE,
           date |-> StartDate, file |-> "",
           existed |-> FALSE, outcome |-> "none", log |-> <<>>,
           page_status |-> 0, matching |-> <<>>, pdf_status |-> 0,
           pdf_body |-> NoBody]

\* what is kept of the call before the running or last one
NoPrev == [dir |-> "", page_url |-> None, force_dl |-> FALSE, file |-> "",
          existed |-> FALSE, outcome |-> "none", gets |-> 0]

Gets(log) == Len(SelectSeq(log, LAMBDA e : e.op = "GET"))

Summary(call) == [dir |-> call.dir, page_url |-> call.page_url,
                  force_dl |-> call.force_dl, file |-> call.file,
                  existed |-> call.existed, outcome |-> call.outcome,
                  gets |-> Gets(call.log)]

\* the anchors of a page whose text contains the marker, as the attribute
\* sets they carry
MatchingAttrs(content) ==
  LET sel == SelectSeq(content.anchors, Matches)
  IN [i \in 1..Len(sel) |-> sel[i].attrs]

NoOpen == [file |-> "", using |-> None, outcome |-> "none", request |-> <<>>]

Ev(op, target) == [op |-> op, target |-> target]

Init ==
  /\ today = [date |-> StartDate, ticks |-> 0]
  /\ dirs = {}
  /\ fs = [f \in {} |-> NoBody]
  /\ pc = "idle"
  /\ file = ""
  /\ pdf_url = ""
  /\ cur = NoCall
  /\ prev = NoPrev
  /\ opened = NoOpen

\* the call ends (return or raise): its locals go out of scope
Finish(call) ==
  /\ pc' = "idle"
  /\ file' = ""
  /\ pdf_url' = ""
  /\ cur' = call

\* the wall clock passes into the next month
Tick ==
  /\ today.ticks < MaxTicks
  /\ today' = [date |-> After(today.date, 1), ticks |-> today.ticks + 1]
  /\ UNCHANGED <<dirs, fs, pc, file, pdf_url, cur, prev, opened>>

\* lines 35-36: the file system after `if force_dl and file.exists():
\* file.unlink()`
UnlinkedNever(f, force_dl) == fs
Unlinked(f, force_dl) ==
  IF force_dl /\ Exists(f) THEN [g \in (DOMAIN fs) \ {f} |-> fs[g]] ELSE fs

\* line 38: `if file.exists()` after the unlink
CacheHitNever(fs1, f) == FALSE
CacheHit(fs1, f) == f \in DOMAIN fs1

\* lines 35-42 with the validation of page_url moved before the unlink
EntryValidatesFirst(f, page_url, force_dl) ==
  IF Falsy(page_url) /\ (force_dl \/ ~Exists(f))
  THEN [fs |-> fs, outcome |-> "InvalidArgument"]
  ELSE LET fs1 == Unlinked(f, force_dl)
       IN [fs |-> fs1,
           outcome |-> IF CacheHit(fs1, f) THEN "returned" ELSE "running"]

\* lines 35-42: forced unlink, then the cache hit, then the page_url check
Entry(f, page_url, force_dl) ==
  LET fs1 == Unlinked(f, force_dl)
  IN [fs |-> fs1,
      outcome |-> IF CacheHit(fs1, f) THEN "returned"
                  ELSE IF Falsy(page_url) THEN "InvalidArgument"
                  ELSE "running"]

\* get_calendar, lines 28-42: mkdir, cache key, forced unlink, cache hit,
\* page_url check
GetCalendarEntry(dir, page_url, force_dl) ==
  /\ pc = "idle"
  /\ LET f == FilePath(dir, today.date)
         e == Entry(f, page_url, force_dl)
         call == [NoCall EXCEPT !.dir = dir, !.page_url = page_url,
                                !.force_dl = force_dl, !.date = today.date,
                                !.file = f, !.existed = Exists(f),
                                !.outcome = e.outcome,
                                !.log = IF e.fs # fs THEN <<Ev("unlink", f)>> ELSE <<>>]
     IN /\ dirs' = dirs \cup {dir}
        /\ fs' = e.fs
        /\ prev' = Summary(cur)
        /\ IF e.outcome # "running"
           THEN Finish(call)
           ELSE /\ pc' = "page_get"
                /\ file' = f
                /\ cur' = call
                /\ UNCHANGED pdf_url
  /\ UNCHANGED <<today, opened>>

\* lines 44-58: GET page_url, status check, parse, collect the matching
\* links, zero/one/many policy
FetchPage(response) ==
  /\ pc = "page_get"
  /\ LET call == [cur EXCEPT !.log = Append(cur.log, Ev("GET", cur.page_url[1])),
                             !.page_status = response.status_code,
                             !.matching = MatchingAttrs(response.content)]
         dl_links == DlLinks(FindAllA(response.content))
     IN IF StatusFails(response.status_code)
        THEN Finish([call EXCEPT !.outcome = "ConnectivityError"])
        ELSE IF dl_links.raised
        THEN Finish([call EXCEPT !.outcome = "KeyError"])
        ELSE IF dl_links.value = <<>>
        THEN Finish([call EXCEPT !.outcome = "NotFound"])
        ELSE IF Len(dl_links.value) # 1
        THEN Finish([call EXCEPT !.outcome = "AmbiguousResult"])
        ELSE /\ pc' = "pdf_get"
             /\ pdf_url' = dl_links.value[1]
             /\ cur' = call
             /\ UNCHANGED file
  /\ UNCHANGED <<today, dirs, fs, prev, opened>>

\* line 63: what `f.write(pdf_response.content)` puts in the file
WrittenNothing(pdf_response) == NoBody
Written(pdf_response) == pdf_response.content

\* lines 62-63 put before the status check of lines 60-61
AfterPdfEager(pdf_response) ==
  [g \in (DOMAIN fs) \cup {file} |-> IF g = file THEN Written(pdf_response) ELSE fs[g]]

\* lines 60-63: the file system after the status check and the write
AfterPdf(pdf_response) ==
  IF StatusFails(pdf_response.status_code)
  THEN fs
  ELSE [g \in (DOMAIN fs) \cup {file} |-> IF g = file THEN Written(pdf_response) ELSE fs[g]]

\* lines 59-65: GET pdf_url, status check, write the body, return the path
FetchPdf(pdf_response) ==
  /\ pc = "pdf_get"
  /\ LET call == [cur EXCEPT !.log = Append(cur.log, Ev("GET", pdf_url)),
                             !.pdf_status = pdf_response.status_code,
                             !.pdf_body = pdf_response.content]
     IN /\ fs' = AfterPdf(pdf_response)
        /\ IF StatusFails(pdf_response.status_code)
           THEN Finish([call EXCEPT !.outcome = "ConnectivityError"])
           ELSE Finish([call EXCEPT !.outcome = "returned",
                                    !.log = Append(call.log, Ev("write", file))])
  /\ UNCHANGED <<today, dirs, prev, opened>>

\* webbrowser.get(using=using): the controller of the named browser (of the
\* default one when using is None); raises webbrowser.Error when it can
\* locate none, and never returns a false value
WebbrowserGet(using) ==
  IF using = None THEN [raised |-> FALSE, browser |-> Some("default")]
  ELSE IF using[1] \in Browsers THEN [raised |-> FALSE, browser |-> using]
  ELSE [raised |-> TRUE, browser |-> None]

\* open_calendar, lines 79-87
OpenCalendar(f, using) ==
  /\ pc = "idle"
  /\ LET call == [NoOpen EXCEPT !.file = f, !.using = using]
         got == WebbrowserGet(using)
     IN IF ~Exists(f)
        THEN opened' = [call EXCEPT !.outcome = "NotFound"]
        ELSE IF got.raised
        THEN opened' = [call EXCEPT !.outcome = "BrowserError"]
        ELSE IF got.browser = None
        THEN opened' = [call EXCEPT !.outcome = "InvalidArgument"]
        ELSE opened' = [call EXCEPT !.outcome = "opened",
                                    !.request = <<"file://" \o f>>]
  /\ UNCHANGED <<today, dirs, fs, pc, file, pdf_url, cur, prev>>

PageResponses == [status_code : Statuses, content : PageBodies]
PdfResponses == [status_code : Statuses, content : PdfBodies]

Next ==
  \/ Tick
  \/ \E dir \in Dirs, page_url \in PageUrls, force_dl \in BOOLEAN :
       GetCalendarEntry(dir, page_url, force_dl)
  \/ \E response \in PageResponses : FetchPage(response)
  \/ \E pdf_response \in PdfResponses : FetchPdf(pdf_response)

\* get_calendar, called again and again while the months pass
Spec == Init /\ [][Next]_vars

\* the file systems get_calendar leaves behind
CacheStates ==
  UNION {[S -> PdfBodies] : S \in SUBSET {FilePath(dir, d) : dir \in Dirs, d \in Dates}}

InitOpen ==
  /\ today \in [date : Dates, ticks : {0}]
  /\ fs \in CacheStates
  /\ dirs = Dirs
  /\ pc = "idle"
  /\ file = ""
  /\ pdf_url = ""
  /\ cur = NoCall
  /\ prev = NoPrev
  /\ opened = NoOpen

NextOpen == \E f \in Files, using \in Usings : OpenCalendar(f, using)

\* open_calendar, called on any path over any cache
SpecOpen == InitOpen /\ [][NextOpen]_vars

(***************************************************************************)
(* Vocabulary of the properties.                                           *)
(***************************************************************************)
\* the last call of get_calendar has ended and nothing has run since
Done == pc = "idle" /\ cur.outcome # "none"

Returned == Done /\ cur.outcome = "returned"

Failed == Done /\ cur.outcome # "returned"

\* the operations of an event log, in order
Ops(log) == [i \in 1..Len(log) |-> log[i].op]

\* HTTP success as the specification has it: any 2xx status
Success2xx(status) == status \in 200..299

\* cur is the call that followed prev, with the same arguments, in the same
\* month (the path carries the year and the month)
SameCallAgain ==
  /\ prev.outcome # "none"
  /\ cur.dir = prev.dir
  /\ cur.page_url = prev.page_url
  /\ cur.force_dl = prev.force_dl
  /\ cur.file = prev.file

\* the ConnectivityError of the last call came from the page GET / the PDF GET
PageRaised == cur.outcome = "ConnectivityError" /\ cur.pdf_status = 0
PdfRaised == cur.outcome = "ConnectivityError" /\ cur.pdf_status # 0

C2_ForcedRefreshAsStated ==
  (Done /\ cur.force_dl /\ cur.existed)
    => /\ Len(cur.log) >= 3
       /\ SubSeq(Ops(cur.log), 1, 3) = <<"unlink", "GET", "GET">>

\* C2 amended: a call with force_dl true that finds the artifact always
\* deletes it first and never returns the cached file: it issues the page GET
\* whenever page_url is non-empty, and when it returns a path it has issued
\* the page GET and then the PDF GET and written the new body; when it fails
\* the artifact is gone.
C2_ForcedRefresh ==
  (Done /\ cur.force_dl /\ cur.existed)
    => /\ Len(cur.log) >= 1
       /\ cur.log[1] = Ev("unlink", cur.file)
       /\ (cur.page_url \notin {None, Some("")}
             => Len(cur.log) >= 2 /\ cur.log[2] = Ev("GET", cur.page_url[1]))
       /\ (cur.outcome = "returned"
             => /\ Ops(cur.log) = <<"unlink", "GET", "GET", "write">>
                /\ Exists(cur.file)
                /\ fs[cur.file] = cur.pdf_body)
       /\ (cur.outcome # "returned" => ~Exists(cur.file))

C2_Witness ==
  /\ Done /\ cur.force_dl /\ cur.existed /\ cur.outcome = "returned"
  /\ Ops(cur.log) = <<"unlink", "GET", "GET", "write">>

(***************************************************************************)
(* C3.  Successful download postcondition.                                 *)
(***************************************************************************)
\* the postcondition of a download: the call returned the path
\* dir/<year><lowercase month name>.pdf, the PDF GET went to the href of the
\* one matching anchor, and the file holds the body of the PDF response
Downloaded ==
  /\ cur.outcome = "returned"
  /\ cur.file = cur.dir \o "/" \o CacheKey(cur.date) \o ".pdf"
  /\ (cur.date = [year |-> 2024, month |-> 12]
        => cur.file = cur.dir \o "/2024december.pdf")
  /\ (cur.date = [year |-> 2025, month |-> 1]
        => cur.file = cur.dir \o "/2025january.pdf")
  /\ cur.log[Len(cur.log) - 1] = Ev("GET", cur.matching[1].href)
  /\ cur.log[Len(cur.log)] = Ev("write", cur.file)
  /\ Exists(cur.file)
  /\ fs[cur.file] = cur.pdf_body
  /\ fs[cur.file].bytes \in PdfBytes

\* C3 as stated, success being any 2xx status: with the artifact absent, a
\* successful page GET with exactly one matching anchor and a successful PDF
\* GET, the call returns the path and the file holds the PDF response body.
C3_DownloadAsStated ==
  (Done /\ ~cur.existed /\ Success2xx(cur.page_status)
        /\ Len(cur.matching) = 1 /\ Success2xx(cur.pdf_status))
    => Downloaded

\* C3 amended: with the artifact absent (or deleted by force_dl), a page GET
\* answered 200 with exactly one matching anchor and a PDF GET answered 200,
\* the call returns dir/(CacheKey + ".pdf") and the file at that path holds
\* exactly the body of the PDF response.
C3_Download ==
  (Done /\ (~cur.existed \/ cur.force_dl) /\ cur.page_status = HTTP_OK
        /\ Len(cur.matching) = 1 /\ cur.pdf_status = HTTP_OK)
    => Downloaded

C3_Witness ==
  /\ Done /\ ~cur.existed /\ cur.page_status = HTTP_OK
  /\ Len(cur.matching) = 1 /\ cur.pdf_status = HTTP_OK
  /\ Exists(cur.file) /\ fs[cur.file] = cur.pdf_body
  /\ cur.pdf_body.bytes = "%PDF-1.4 B"

(***************************************************************************)
(* C4.  Link-count policy.                                                 *)
(***************************************************************************)
\* C4: after a page GET answered 200, for every page: zero matching anchors
\* give NotFound, two or more give AmbiguousResult, exactly one makes the call
\* go on to the PDF GET; no PDF GET is issued in the zero and many cases.
C4_LinkCountPolicy ==
  (Done /\ cur.page_status = HTTP_OK)
    => /\ (Len(cur.matching) = 0
             => cur.outcome = "NotFound" /\ Gets(cur.log) = 1)
       /\ (Len(cur.matching) >= 2
             => cur.outcome = "AmbiguousResult" /\ Gets(cur.log) = 1)
       /\ (Len(cur.matching) = 1 => Gets(cur.log) = 2)

(***************************************************************************)
(* C5.  HTTP status policy.                                                *)
(***************************************************************************)
\* C5 as stated: each of the two GETs raises ConnectivityError exactly when
\* its response status is not a 2xx status.
C5_StatusPolicyAsStated ==
  Done => /\ (cur.page_status # 0
                => (PageRaised <=> ~Success2xx(cur.page_status)))
          /\ (cur.pdf_status # 0
                => (PdfRaised <=> ~Success2xx(cur.pdf_status)))

\* C5 amended: each of the two GETs raises ConnectivityError exactly when its
\* response status is not 200; a 2xx status other than 200 raises it too.
C5_StatusPolicy ==
  Done => /\ (cur.page_status # 0
                => (PageRaised <=> cur.page_status # 200))
          /\ (cur.pdf_status # 0
                => (PdfRaised <=> cur.pdf_status # 200))

C5_Witness ==
  /\ Done /\ cur.pdf_status = 204 /\ PdfRaised
  /\ prev.outcome = "ConnectivityError" /\ prev.gets = 1

C7_NoPartialSuccess ==
  [][(\E g \in DOMAIN fs' : g \notin DOMAIN fs \/ fs'[g] # fs[g])
       => /\ pc' = "idle"
          /\ cur'.outcome = "returned"
          /\ \A g \in DOMAIN fs' :
               (g \notin DOMAIN fs \/ fs'[g] # fs[g]) => g = cur'.file]_vars

C7_Witness ==
  /\ Failed /\ PdfRaised /\ Gets(cur.log) = 2
  /\ ~Exists(cur.file)

(***************************************************************************)
(* C8.  Closed error taxonomy.                                             *)
(***************************************************************************)
\* C8: every call that fails ends in InvalidArgument, ConnectivityError,
\* NotFound or AmbiguousResult, whatever the page holds; with exactly one
\* matching anchor the PDF GET goes to its href.
C8_ClosedTaxonomy ==
  /\ Failed => cur.outcome \in {"InvalidArgument", "ConnectivityError",
                                "NotFound", "AmbiguousResult"}
  /\ (Done /\ Gets(cur.log) = 2)
       => cur.log[Len(SelectSeq(cur.log, LAMBDA e : e.op = "unlink")) + 2].target
            = cur.matching[1].href

(***************************************************************************)
(* C9.  Launcher argument checks.                                          *)
(***************************************************************************)
\* C9: open_calendar ends in NotFound when the path names no existing file
\* and in InvalidArgument when a viewer name is given and no such viewer is
\* found; in both cases nothing is opened.
C9_LauncherChecks ==
  opened.outcome # "none"
    => /\ (~Exists(opened.file)
             => opened.outcome = "NotFound" /\ opened.request = <<>>)
       /\ (Exists(opened.file) /\ opened.using # None
           /\ opened.using[1] \notin Browsers
             => opened.outcome = "InvalidArgument" /\ opened.request = <<>>)

(***************************************************************************)
(* C10.  A failed forced refresh loses the cache.                          *)
(***************************************************************************)
\* C10: a call with force_dl true that finds the artifact deletes it before
\* anything else, so when the call fails, for whatever reason, the artifact
\* no longer exists, and the next call for the same month with force_dl
\* false finds no artifact and cannot return without downloading.
C10_FailedRefreshLosesCache ==
  /\ (cur.outcome # "none" /\ cur.force_dl /\ cur.existed)
       => Len(cur.log) >= 1 /\ cur.log[1] = Ev("unlink", cur.file)
  /\ (Failed /\ cur.force_dl /\ cur.existed) => ~Exists(cur.file)
  /\ (prev.force_dl /\ prev.existed /\ prev.outcome # "returned"
      /\ cur.file = prev.file /\ ~cur.force_dl)
       => /\ ~cur.existed
          /\ (Returned => Ops(cur.log) = <<"GET", "GET", "write">>)

C10_Witness ==
  /\ Done /\ prev.force_dl /\ prev.existed /\ prev.outcome = "InvalidArgument"
  /\ cur.file = prev.file /\ ~cur.force_dl
  /\ cur.outcome = "returned" /\ Gets(cur.log) = 2
====
